---------------------------- MODULE Spec2Model ----------------------------
(***************************************************************************)
(* The telemetry session engine of wwwroot/js/Dashboard.js (the revision   *)
(* with the simulator and the session history, lines 347-1104): session    *)
(* start/stop, the ingress handlers, validation, the chart's rolling       *)
(* window, alert counting, the simulator's interval timer and the session  *)
(* history kept in localStorage.                                           *)
(*                                                                         *)
(* Every handler runs to completion (one action per handler).  A handler   *)
(* that throws keeps the assignments it made before the throw.             *)
(* Time is in milliseconds since page load; the wall clock (new Date()) and *)
(* performance.now() advance together.                                     *)
(***************************************************************************)
EXTENDS Integers, Sequences, FiniteSets, TLC

VARIABLES
    isSessionActive,      \* let isSessionActive
    sessionStartTime,     \* let sessionStartTime: NullTime or a time
    totalAlerts,          \* let totalAlerts
    sessionData,          \* let sessionData: the accepted samples
    chart,                \* drowsinessChart.data: labels and the two datasets
    alertStatus,          \* the #alertStatus element: "Clear" or "Active"
    simulatorIntervalId,  \* let simulatorIntervalId: 0 (null) or a timer id
    simulatorState,       \* let simulatorState
    timers,               \* the browser's scheduled interval timers
    recentSessions,       \* let recentSessions
    localStorage,         \* localStorage's 'recentSessions' slot
    threshold,            \* the #drowsinessThreshold slider's value
    statistics,           \* the #avgBlinkRate and #peakDrowsiness elements
    now,                  \* the clock
    lastCall,             \* observation: the handler that ran last
    accepted,             \* observation: samples the validator accepted since start
    lastWriteOk,          \* observation: no setItem failed since the slot was read or written
    pushed                \* observation: samples pushed to the chart since its reset

vars == <<isSessionActive, sessionStartTime, totalAlerts, sessionData, chart,
          alertStatus, simulatorIntervalId, simulatorState, timers,
          recentSessions, localStorage, threshold, statistics, now, lastCall,
          accepted, lastWriteOk, pushed>>

(***************************************************************************)
(* Bounds of the model.                                                    *)
(***************************************************************************)
MaxSteps == 1
MaxHeld == 2
MaxPushes == 22
MaxTicks == 490
MaxTiltTicks == 5
MaxThresholdTicks == 3

(***************************************************************************)
(* Program constants.                                                      *)
(***************************************************************************)
ChartCapacity == 20
HistoryCapacity == 10
TickPeriodMs == 2000
BlinkIntervalMs == 3000
BatteryFull == 100
BatteryFloor == 5
TiltLimit == 30
MsPerSecond == 1000
SecondsPerDay == 86400

NullTime == -1

(***************************************************************************)
(* JavaScript values.  A number is finite ("num"), NaN or an infinity; the *)
(* other values a message field can hold are undefined, a string, a        *)
(* boolean, a Date and an object.                                          *)
(***************************************************************************)
Num(v) == [tag |-> "num", val |-> v]
NaN == [tag |-> "nan", val |-> 0]
Infinity == [tag |-> "inf", val |-> 0]
Undefined == [tag |-> "undef", val |-> 0]
Str == [tag |-> "str", val |-> 0]
Bool(b) == [tag |-> "bool", val |-> IF b THEN 1 ELSE 0]
DateOf(t) == [tag |-> "date", val |-> t]
InvalidDate == [tag |-> "invalidDate", val |-> 0]

\* typeof x === 'number'
TypeofNumber(x) == x.tag \in {"num", "nan", "inf"}
\* Number.isFinite(x)
IsFinite(x) == x.tag = "num"
\* the truthiness of a value in an if
Truthy(x) ==
    CASE x.tag = "bool" -> x.val = 1
      [] x.tag = "num" -> x.val # 0
      [] x.tag \in {"undef", "nan"} -> FALSE
      [] OTHER -> TRUE
\* new Date(x)
NewDate(x) == IF x.tag = "num" THEN DateOf(x.val) ELSE InvalidDate
\* x.toFixed(n) throws a TypeError unless x is a number
HasToFixed(x) == TypeofNumber(x)
\* x.toLocaleTimeString() throws a TypeError unless x is a Date
HasToLocaleTimeString(x) == x.tag \in {"date", "invalidDate"}
\* Date.prototype.toLocaleTimeString: the time of day to the second, without
\* the date; -1 stands for the string "Invalid Date"
ToLocaleTimeString(d) ==
    IF d.tag = "date" THEN (d.val \div MsPerSecond) % SecondsPerDay ELSE -1

(***************************************************************************)
(* headMovement: absent, an object without numeric pitch/roll/yaw, or the  *)
(* three angles.                                                           *)
(***************************************************************************)
NoHead == [tag |-> "undef", pitch |-> 0, roll |-> 0, yaw |-> 0]
PartialHead == [tag |-> "partial", pitch |-> 0, roll |-> 0, yaw |-> 0]
HeadOf(p, r, y) == [tag |-> "obj", pitch |-> p, roll |-> r, yaw |-> y]

(***************************************************************************)
(* A message as a handler receives it.  nil: the argument is null or       *)
(* undefined.  Timestamp is the device's field, timestamp the Date the     *)
(* handlers read.                                                          *)
(***************************************************************************)
Message(ts, blink, drowsy, alert, head, batt) ==
    [nil |-> FALSE, Timestamp |-> ts, timestamp |-> Undefined,
     eyeBlinkRate |-> blink, drowsinessLevel |-> drowsy,
     alertTriggered |-> alert, headMovement |-> head, batteryLevel |-> batt]
NullMessage ==
    [Message(Undefined, Undefined, Undefined, Undefined, NoHead, Undefined)
        EXCEPT !.nil = TRUE]

(***************************************************************************)
(* Arithmetic on JavaScript numbers (the only infinity modelled is         *)
(* +Infinity).                                                             *)
(***************************************************************************)
JsAdd(a, b) ==
    CASE a.tag = "nan" \/ b.tag = "nan" -> NaN
      [] a.tag = "inf" \/ b.tag = "inf" -> Infinity
      [] OTHER -> Num(a.val + b.val)
\* Math.max(a, b), as Math.max(...list) folds it
JsMax(a, b) ==
    CASE a.tag = "nan" \/ b.tag = "nan" -> NaN
      [] a.tag = "inf" \/ b.tag = "inf" -> Infinity
      [] OTHER -> Num(IF a.val >= b.val THEN a.val ELSE b.val)

RECURSIVE Gcd(_, _)
Gcd(a, b) == IF b = 0 THEN a ELSE Gcd(b, a % b)
\* n / d as an exact fraction in lowest terms (n >= 0, d > 0)
Ratio(n, d) == LET g == Gcd(n, d) IN [num |-> n \div g, den |-> d \div g]

\* sessionData.reduce((s, d) => s + d.eyeBlinkRate, 0); the sums are exact
\* here, so the fold is evaluated by halves
RECURSIVE SumBlink(_)
SumBlink(data) ==
    IF data = <<>> THEN Num(0)
    ELSE IF Len(data) = 1 THEN JsAdd(Num(0), data[1].eyeBlinkRate)
    ELSE LET half == Len(data) \div 2
         IN  JsAdd(SumBlink(SubSeq(data, 1, half)),
                   SumBlink(SubSeq(data, half + 1, Len(data))))
\* Math.max(...sessionData.map(d => d.drowsinessLevel)), data not empty
RECURSIVE MaxDrowsy(_)
MaxDrowsy(data) ==
    IF Len(data) = 1 THEN data[1].drowsinessLevel
    ELSE LET half == Len(data) \div 2
         IN  JsMax(MaxDrowsy(SubSeq(data, 1, half)),
                   MaxDrowsy(SubSeq(data, half + 1, Len(data))))

(***************************************************************************)
(* processSensorData's validation (line 794): TRUE when the message is     *)
(* rejected.                                                               *)
(***************************************************************************)
Rejected(data) ==
    \/ data.nil
    \/ data.headMovement.tag = "undef"
    \/ ~TypeofNumber(data.eyeBlinkRate)
    \/ ~TypeofNumber(data.drowsinessLevel)

(***************************************************************************)
(* updateDashboardDisplays throws a TypeError when a field it formats is   *)
(* missing: headMovement.pitch/roll/yaw.toFixed, batteryLevel.toFixed,     *)
(* timestamp.toLocaleTimeString.                                           *)
(***************************************************************************)
DisplayThrows(data) ==
    \/ data.headMovement.tag # "obj"
    \/ ~HasToFixed(data.batteryLevel)
    \/ ~HasToLocaleTimeString(data.timestamp)

(***************************************************************************)
(* The chart's three parallel arrays.                                      *)
(***************************************************************************)
EmptyChart == [labels |-> <<>>, drowsiness |-> <<>>, blink |-> <<>>]

\* an updateChart that drops the newest point instead of the oldest
updateChartDropNewest(c, data) ==
    LET l == Append(c.labels, ToLocaleTimeString(data.timestamp))
        d == Append(c.drowsiness, data.drowsinessLevel)
        b == Append(c.blink, data.eyeBlinkRate)
    IN  IF Len(l) > ChartCapacity
        THEN [labels |-> c.labels, drowsiness |-> c.drowsiness, blink |-> c.blink]
        ELSE [labels |-> l, drowsiness |-> d, blink |-> b]

\* an updateChart that shifts only the labels when the window is full
updateChartShiftsLabelsOnly(c, data) ==
    LET l == Append(c.labels, ToLocaleTimeString(data.timestamp))
        d == Append(c.drowsiness, data.drowsinessLevel)
        b == Append(c.blink, data.eyeBlinkRate)
    IN  IF Len(l) > ChartCapacity
        THEN [labels |-> Tail(l), drowsiness |-> d, blink |-> b]
        ELSE [labels |-> l, drowsiness |-> d, blink |-> b]

\* updateChart: push to the three arrays, then shift each when more than 20
updateChart(c, data) ==
    LET l == Append(c.labels, ToLocaleTimeString(data.timestamp))
        d == Append(c.drowsiness, data.drowsinessLevel)
        b == Append(c.blink, data.eyeBlinkRate)
    IN  IF Len(l) > ChartCapacity
        THEN [labels |-> Tail(l), drowsiness |-> Tail(d), blink |-> Tail(b)]
        ELSE [labels |-> l, drowsiness |-> d, blink |-> b]

(***************************************************************************)
(* updateSessionStatistics (lines 887-905) writes the average blink rate   *)
(* and the peak drowsiness to the page with toFixed(1).  A text is the     *)
(* dashes startSession writes, a number with one decimal (held in tenths), *)
(* "NaN" or "Infinity".                                                    *)
(***************************************************************************)
Dashes == [tag |-> "dashes", val |-> 0]
Fixed1(tenths) == [tag |-> "fixed", val |-> tenths]
\* (n / d).toFixed(1), n >= 0 and d > 0: the nearest tenth, the larger of two
RatioToFixed1(r) == Fixed1((20 * r.num + r.den) \div (2 * r.den))
\* x.toFixed(1) of a number
ToFixed1(x) ==
    CASE x.tag = "num" -> RatioToFixed1(Ratio(x.val, 1))
      [] x.tag = "nan" -> [tag |-> "NaN", val |-> 0]
      [] OTHER -> [tag |-> "Infinity", val |-> 0]

NoStatistics == [avgBlinkRate |-> Dashes, peakDrowsiness |-> Dashes]

\* the texts updateSessionStatistics shows for the samples data (not empty)
StatisticsOf(data) ==
    LET sum == SumBlink(data)
    IN  [avgBlinkRate |-> IF IsFinite(sum)
                          THEN RatioToFixed1(Ratio(sum.val, Len(data)))
                          ELSE ToFixed1(sum),
         peakDrowsiness |-> ToFixed1(MaxDrowsy(data))]

\* updateSessionStatistics over the samples data: nothing when there are none
updateSessionStatistics(data) ==
    statistics' = IF Len(data) = 0 THEN statistics ELSE StatisticsOf(data)

\* the observation of a handler's run
Call(op, outcome) == [op |-> op, outcome |-> outcome]

(***************************************************************************)
(* checkForAlerts / triggerAlert / clearAlert (lines 859-884): the sample's *)
(* own flag decides; an alert adds one to the counter.                     *)
(***************************************************************************)
AlertFires(data) == Truthy(data.alertTriggered)

checkForAlerts(data) ==
    IF AlertFires(data)
    THEN /\ totalAlerts' = totalAlerts + 1
         /\ alertStatus' = "Active"
    ELSE /\ totalAlerts' = totalAlerts
         /\ alertStatus' = "Clear"

\* a processSensorData that stores the message before validating it
processSensorDataStoreFirst(op, data) ==
    /\ sessionData' = Append(sessionData, data)
    /\ IF Rejected(data)
       THEN /\ lastCall' = Call(op, "rejected")
            /\ UNCHANGED <<chart, totalAlerts, alertStatus, statistics,
                           accepted, pushed>>
       ELSE /\ accepted' = accepted + 1
            /\ IF DisplayThrows(data)
               THEN /\ lastCall' = Call(op, "threw")
                    /\ UNCHANGED <<chart, totalAlerts, alertStatus,
                                   statistics, pushed>>
               ELSE /\ chart' = updateChart(chart, data)
                    /\ pushed' = Append(pushed, data)
                    /\ checkForAlerts(data)
                    /\ updateSessionStatistics(Append(sessionData, data))
                    /\ lastCall' = Call(op, "ok")

(***************************************************************************)
(* processSensorData (lines 792-813), called by handler op: validate,      *)
(* push to sessionData, updateDashboardDisplays, updateChart,              *)
(* checkForAlerts, updateSessionStatistics.                                *)
(* A TypeError in updateDashboardDisplays leaves the sample in sessionData  *)
(* and skips the rest.                                                     *)
(***************************************************************************)
processSensorData(op, data) ==
    IF Rejected(data)
    THEN /\ lastCall' = Call(op, "rejected")
         /\ UNCHANGED <<sessionData, chart, totalAlerts, alertStatus,
                        statistics, accepted, pushed>>
    ELSE /\ sessionData' = Append(sessionData, data)
         /\ accepted' = accepted + 1
         /\ IF DisplayThrows(data)
            THEN /\ lastCall' = Call(op, "threw")
                 /\ UNCHANGED <<chart, totalAlerts, alertStatus, statistics,
                                pushed>>
            ELSE /\ chart' = updateChart(chart, data)
                 /\ pushed' = Append(pushed, data)
                 /\ checkForAlerts(data)
                 /\ updateSessionStatistics(Append(sessionData, data))
                 /\ lastCall' = Call(op, "ok")

\* a transport callback that ends the session when the message is null
ReceiveSensorDataEndsSession(data) ==
    /\ IF ~isSessionActive
       THEN /\ lastCall' = Call("ReceiveSensorData", "ignored")
            /\ UNCHANGED <<sessionData, chart, totalAlerts, alertStatus,
                           statistics, accepted, pushed, isSessionActive>>
       ELSE IF data.nil
       THEN /\ lastCall' = Call("ReceiveSensorData", "threw")
            /\ isSessionActive' = FALSE
            /\ UNCHANGED <<sessionData, chart, totalAlerts, alertStatus,
                           statistics, accepted, pushed>>
       ELSE /\ processSensorData("ReceiveSensorData",
                   [data EXCEPT !.timestamp = NewDate(data.Timestamp)])
            /\ UNCHANGED isSessionActive
    /\ UNCHANGED <<sessionStartTime, simulatorIntervalId,
                   simulatorState, timers, recentSessions, localStorage,
                   threshold, now, lastWriteOk>>

(***************************************************************************)
(* connection.on("ReceiveSensorData") (lines 355-361): only while active;  *)
(* data.timestamp = new Date(data.Timestamp) throws when data is null.     *)
(***************************************************************************)
ReceiveSensorData(data) ==
    /\ IF ~isSessionActive
       THEN /\ lastCall' = Call("ReceiveSensorData", "ignored")
            /\ UNCHANGED <<sessionData, chart, totalAlerts, alertStatus,
                           statistics, accepted, pushed>>
       ELSE IF data.nil
       THEN /\ lastCall' = Call("ReceiveSensorData", "threw")
            /\ UNCHANGED <<sessionData, chart, totalAlerts, alertStatus,
                           statistics, accepted, pushed>>
       ELSE processSensorData("ReceiveSensorData",
                [data EXCEPT !.timestamp = NewDate(data.Timestamp)])
    /\ UNCHANGED <<isSessionActive, sessionStartTime, simulatorIntervalId,
                   simulatorState, timers, recentSessions, localStorage,
                   threshold, now, lastWriteOk>>

(***************************************************************************)
(* onESP32DataReceived (lines 1100-1103): logs and processes the message,  *)
(* whatever the session's state.                                           *)
(***************************************************************************)
onESP32DataReceived(data) ==
    /\ processSensorData("onESP32DataReceived", data)
    /\ UNCHANGED <<isSessionActive, sessionStartTime, simulatorIntervalId,
                   simulatorState, timers, recentSessions, localStorage,
                   threshold, now, lastWriteOk>>

(***************************************************************************)
(* The simulator (lines 377-385, 466-551).  Random draws are inputs of the *)
(* tick.  Angles are in degrees, rates in blinks per minute, drowsiness in *)
(* percent, the battery level in hundredths of a percent.                  *)
(***************************************************************************)
ZeroTilt == [pitch |-> 0, roll |-> 0, yaw |-> 0]
Axes == {"pitch", "roll", "yaw"}

InitialSimulatorState ==
    [lastBlinkMs |-> 0, blinkIntervalMs |-> BlinkIntervalMs,
     batteryLevel |-> BatteryFull * 100, tiltCooldown |-> 0,
     baseTilt |-> ZeroTilt]

\* the ids of the scheduled interval timers
TimerIds == {t.id : t \in timers}
\* setInterval's return value: a positive integer no scheduled timer has
FreshTimerId == CHOOSE i \in 1..(Cardinality(timers) + 1) : i \notin TimerIds

\* a startSimulator without its guard
startSimulatorUnguarded ==
    /\ simulatorState' =
           [simulatorState EXCEPT !.lastBlinkMs = now,
                                  !.batteryLevel = BatteryFull * 100,
                                  !.tiltCooldown = 0,
                                  !.baseTilt = ZeroTilt]
    /\ simulatorIntervalId' = FreshTimerId
    /\ timers' = timers \cup {[id |-> FreshTimerId, due |-> now + TickPeriodMs]}

\* startSimulator: nothing when an interval id is held; else reset the
\* simulator's state and schedule the tick every 2 seconds
startSimulator ==
    IF simulatorIntervalId # 0
    THEN UNCHANGED <<simulatorIntervalId, simulatorState, timers>>
    ELSE /\ simulatorState' =
                [simulatorState EXCEPT !.lastBlinkMs = now,
                                       !.batteryLevel = BatteryFull * 100,
                                       !.tiltCooldown = 0,
                                       !.baseTilt = ZeroTilt]
         /\ simulatorIntervalId' = FreshTimerId
         /\ timers' = timers \cup
                {[id |-> FreshTimerId, due |-> now + TickPeriodMs]}

\* stopSimulator: clearInterval and forget the id
stopSimulator ==
    IF simulatorIntervalId # 0
    THEN /\ timers' = {t \in timers : t.id # simulatorIntervalId}
         /\ simulatorIntervalId' = 0
    ELSE UNCHANGED <<simulatorIntervalId, timers>>

Abs(x) == IF x < 0 THEN -x ELSE x
Max(a, b) == IF a >= b THEN a ELSE b
Min(a, b) == IF a <= b THEN a ELSE b

\* the blink event of a tick (lines 490-495)
BlinkFires(st) == now - st.lastBlinkMs >= st.blinkIntervalMs

\* a tilt step that leaves the deflection in place when the cooldown ends
TiltStepKeepsDeflection(st, rnd) ==
    IF st.tiltCooldown = 0 /\ rnd.spike
    THEN [st EXCEPT !.tiltCooldown = rnd.cooldown,
                    !.baseTilt = [st.baseTilt EXCEPT
                                     ![rnd.axis] = rnd.sign * rnd.magnitude]]
    ELSE IF st.tiltCooldown > 0
    THEN [st EXCEPT !.tiltCooldown = st.tiltCooldown - 1]
    ELSE st

\* a tilt step that starts a spike whatever the cooldown
TiltStepSpikesDuringCooldown(st, rnd) ==
    IF rnd.spike
    THEN [st EXCEPT !.tiltCooldown = rnd.cooldown,
                    !.baseTilt = [st.baseTilt EXCEPT
                                     ![rnd.axis] = rnd.sign * rnd.magnitude]]
    ELSE IF st.tiltCooldown > 0
    THEN [st EXCEPT !.tiltCooldown = st.tiltCooldown - 1,
                    !.baseTilt = IF st.tiltCooldown - 1 = 0
                                 THEN ZeroTilt ELSE st.baseTilt]
    ELSE st

\* the tilt spike and its cooldown (lines 497-509)
TiltStep(st, rnd) ==
    IF st.tiltCooldown = 0 /\ rnd.spike
    THEN [st EXCEPT !.tiltCooldown = rnd.cooldown,
                    !.baseTilt = [st.baseTilt EXCEPT
                                     ![rnd.axis] = rnd.sign * rnd.magnitude]]
    ELSE IF st.tiltCooldown > 0
    THEN [st EXCEPT !.tiltCooldown = st.tiltCooldown - 1,
                    !.baseTilt = IF st.tiltCooldown - 1 = 0
                                 THEN ZeroTilt ELSE st.baseTilt]
    ELSE st

\* observed angles whose noise is sixteen times as wide
ObservedHeadWideNoise(st, rnd) ==
    HeadOf(st.baseTilt.pitch + 16 * rnd.noise.pitch,
           st.baseTilt.roll + 16 * rnd.noise.roll,
           st.baseTilt.yaw + 16 * rnd.noise.yaw)

\* the observed angles: base deflection plus noise (lines 511-515)
ObservedHead(st, rnd) ==
    HeadOf(st.baseTilt.pitch + rnd.noise.pitch,
           st.baseTilt.roll + rnd.noise.roll,
           st.baseTilt.yaw + rnd.noise.yaw)

\* a tilt test that counts exactly 30 degrees
TiltExceededAtLimit(head) ==
    Max(Abs(head.pitch), Max(Abs(head.roll), Abs(head.yaw))) >= TiltLimit

\* lines 517-521
TiltExceeded(head) ==
    Max(Abs(head.pitch), Max(Abs(head.roll), Abs(head.yaw))) > TiltLimit

\* the heuristic without the clamp
DrowsinessOfUnclamped(rnd, eyeClosed, tiltExceeded) ==
    rnd.drowsyBase
    + (IF eyeClosed THEN rnd.blinkAdd ELSE 0)
    + (IF tiltExceeded THEN rnd.tiltAdd ELSE 0)

\* lines 527-531
DrowsinessOf(rnd, eyeClosed, tiltExceeded) ==
    Max(0, Min(100, rnd.drowsyBase
                    + (IF eyeClosed THEN rnd.blinkAdd ELSE 0)
                    + (IF tiltExceeded THEN rnd.tiltAdd ELSE 0)))

\* a tick that adds the decay to the battery level
TickStateCharging(st, rnd) ==
    LET tilted == TiltStep(st, rnd)
    IN  [tilted EXCEPT
            !.lastBlinkMs = IF BlinkFires(st) THEN now ELSE st.lastBlinkMs,
            !.batteryLevel = Max(BatteryFloor * 100,
                                 st.batteryLevel + rnd.batteryDrop)]

\* the simulator state after a tick (blink timer, tilt, battery)
TickState(st, rnd) ==
    LET tilted == TiltStep(st, rnd)
    IN  [tilted EXCEPT
            !.lastBlinkMs = IF BlinkFires(st) THEN now ELSE st.lastBlinkMs,
            !.batteryLevel = Max(BatteryFloor * 100,
                                 st.batteryLevel - rnd.batteryDrop)]

\* a tick's sample without the battery level
TickSampleWithoutBattery(st, rnd) ==
    LET after == TickState(st, rnd)
        eyeClosed == BlinkFires(st)
        head == ObservedHead(after, rnd)
        exceeded == TiltExceeded(head)
        drowsy == DrowsinessOf(rnd, eyeClosed, exceeded)
    IN  [nil |-> FALSE, Timestamp |-> Undefined, timestamp |-> DateOf(now),
         eyeBlinkRate |-> Num(IF eyeClosed THEN 20 ELSE rnd.baselineBlink),
         drowsinessLevel |-> Num(drowsy),
         alertTriggered |-> Bool(drowsy >= threshold \/ exceeded),
         headMovement |-> head,
         batteryLevel |-> Undefined]

\* a sample flagged only above the threshold, not at it
TickSampleAboveThreshold(st, rnd) ==
    LET after == TickState(st, rnd)
        eyeClosed == BlinkFires(st)
        head == ObservedHead(after, rnd)
        exceeded == TiltExceeded(head)
        drowsy == DrowsinessOf(rnd, eyeClosed, exceeded)
    IN  [nil |-> FALSE, Timestamp |-> Undefined, timestamp |-> DateOf(now),
         eyeBlinkRate |-> Num(IF eyeClosed THEN 20 ELSE rnd.baselineBlink),
         drowsinessLevel |-> Num(drowsy),
         alertTriggered |-> Bool(drowsy > threshold \/ exceeded),
         headMovement |-> head,
         batteryLevel |-> Num(after.batteryLevel)]

\* the sample a tick produces (lines 540-548)
TickSample(st, rnd) ==
    LET after == TickState(st, rnd)
        eyeClosed == BlinkFires(st)
        head == ObservedHead(after, rnd)
        exceeded == TiltExceeded(head)
        drowsy == DrowsinessOf(rnd, eyeClosed, exceeded)
    IN  [nil |-> FALSE, Timestamp |-> Undefined, timestamp |-> DateOf(now),
         eyeBlinkRate |-> Num(IF eyeClosed THEN 20 ELSE rnd.baselineBlink),
         drowsinessLevel |-> Num(drowsy),
         alertTriggered |-> Bool(drowsy >= threshold \/ exceeded),
         headMovement |-> head,
         batteryLevel |-> Num(after.batteryLevel)]

\* simulatorTick (lines 484-551): the interval timer's callback
simulatorTick(rnd) ==
    IF ~isSessionActive
    THEN /\ lastCall' = Call("simulatorTick", "ignored")
         /\ UNCHANGED <<simulatorState, sessionData, chart, totalAlerts,
                        alertStatus, statistics, accepted, pushed>>
    ELSE /\ simulatorState' = TickState(simulatorState, rnd)
         /\ processSensorData("simulatorTick", TickSample(simulatorState, rnd))

\* an interval timer comes due: its callback runs and it is scheduled again
TimerFires(rnd) ==
    \E t \in timers :
        /\ t.due = now
        /\ simulatorTick(rnd)
        /\ timers' = (timers \ {t}) \cup {[t EXCEPT !.due = now + TickPeriodMs]}
        /\ UNCHANGED <<isSessionActive, sessionStartTime, simulatorIntervalId,
                       recentSessions, localStorage, threshold, now,
                       lastWriteOk>>

(***************************************************************************)
(* The session history (lines 395-427).  The localStorage slot is absent,  *)
(* holds the JSON text of an array, of another value, or text JSON.parse   *)
(* rejects, or cannot be read (getItem throws).                            *)
(***************************************************************************)
AbsentSlot == [tag |-> "absent", val |-> <<>>]
UnreadableSlot == [tag |-> "unreadable", val |-> <<>>]
ArraySlot(list) == [tag |-> "array", val |-> list]
NotArraySlot == [tag |-> "notArray", val |-> <<>>]
UnparseableSlot == [tag |-> "unparseable", val |-> <<>>]

\* an element of a stored array that is no summary, as in [{"junk": true}]
Junk == [junk |-> TRUE]
\* an object with the fields saveRecentSession gives a summary
IsSummary(entry) ==
    DOMAIN entry = {"start", "end", "durationMs", "totalAlerts",
                    "avgBlinkRate", "peakDrowsiness", "points"}

\* loadRecentSessions: the parsed array, or [] when the slot is absent, cannot
\* be read, does not parse or is no array
loadRecentSessions(slot) ==
    IF slot.tag = "array" THEN slot.val ELSE <<>>

\* the first n entries of a list: list.slice(0, n)
Slice(list, n) == SubSeq(list, 1, Min(n, Len(list)))

\* a summary that records the mean as it comes: a mean that is not finite is
\* written here as the fraction 0 / 0
SummaryUnchecked ==
    LET sum == SumBlink(sessionData)
        peak == MaxDrowsy(sessionData)
    IN  [start |-> sessionStartTime,
         end |-> now,
         durationMs |-> now - sessionStartTime,
         totalAlerts |-> totalAlerts,
         avgBlinkRate |-> IF IsFinite(sum)
                          THEN Ratio(sum.val, Len(sessionData))
                          ELSE [num |-> 0, den |-> 0],
         peakDrowsiness |-> IF IsFinite(peak) THEN peak.val ELSE 0,
         points |-> Len(sessionData)]

\* the summary saveRecentSession builds of the current session at time now
Summary ==
    LET sum == SumBlink(sessionData)
        peak == MaxDrowsy(sessionData)
    IN  [start |-> sessionStartTime,
         end |-> now,
         durationMs |-> now - sessionStartTime,
         totalAlerts |-> totalAlerts,
         avgBlinkRate |-> IF IsFinite(sum)
                          THEN Ratio(sum.val, Len(sessionData))
                          ELSE Ratio(0, 1),
         peakDrowsiness |-> IF IsFinite(peak) THEN peak.val ELSE 0,
         points |-> Len(sessionData)]

\* a Record that does not truncate the list
RecordWithoutSlice(list, summary) == <<summary>> \o list

\* recentSessions.unshift(summary); recentSessions = recentSessions.slice(0, 10)
Record(list, summary) == Slice(<<summary>> \o list, HistoryCapacity)

\* a saveRecentSession that writes the slot before it records the summary
saveRecentSessionWritesFirst(writeOk) ==
    IF sessionStartTime = NullTime \/ Len(sessionData) = 0
    THEN UNCHANGED <<recentSessions, localStorage, lastWriteOk>>
    ELSE /\ recentSessions' = Record(recentSessions, Summary)
         /\ localStorage' = IF writeOk
                            THEN ArraySlot(recentSessions)
                            ELSE localStorage
         /\ lastWriteOk' = writeOk

\* a saveRecentSession that forgets the summary when the write fails
saveRecentSessionForgetsOnFailure(writeOk) ==
    IF sessionStartTime = NullTime \/ Len(sessionData) = 0
    THEN UNCHANGED <<recentSessions, localStorage, lastWriteOk>>
    ELSE /\ recentSessions' = IF writeOk
                              THEN Record(recentSessions, Summary)
                              ELSE recentSessions
         /\ localStorage' = IF writeOk
                            THEN ArraySlot(Record(recentSessions, Summary))
                            ELSE localStorage
         /\ lastWriteOk' = writeOk

\* saveRecentSession: nothing without a start time or without samples; else
\* record the summary and write the slot (a failing setItem is swallowed)
saveRecentSession(writeOk) ==
    IF sessionStartTime = NullTime \/ Len(sessionData) = 0
    THEN UNCHANGED <<recentSessions, localStorage, lastWriteOk>>
    ELSE /\ recentSessions' = Record(recentSessions, Summary)
         /\ localStorage' = IF writeOk
                            THEN ArraySlot(Record(recentSessions, Summary))
                            ELSE localStorage
         /\ lastWriteOk' = writeOk

\* a resetChart that leaves the chart's points in place
resetChartKeepsPoints ==
    /\ chart' = chart
    /\ pushed' = pushed

\* resetChart (lines 387-393)
resetChart ==
    /\ chart' = EmptyChart
    /\ pushed' = <<>>

\* a startSession that keeps the alert counter of the session before
startSessionKeepsAlerts ==
    /\ isSessionActive' = TRUE
    /\ sessionStartTime' = now
    /\ sessionData' = <<>>
    /\ totalAlerts' = totalAlerts
    /\ startSimulator
    /\ resetChart
    /\ statistics' = NoStatistics
    /\ alertStatus' = "Clear"
    /\ accepted' = 0
    /\ lastCall' = Call("startSession", IF isSessionActive THEN "whileActive" ELSE "ok")
    /\ UNCHANGED <<recentSessions, localStorage, threshold, now, lastWriteOk>>

\* a startSession that empties the history and the slot
startSessionClearsHistory ==
    /\ isSessionActive' = TRUE
    /\ sessionStartTime' = now
    /\ sessionData' = <<>>
    /\ totalAlerts' = 0
    /\ startSimulator
    /\ resetChart
    /\ statistics' = NoStatistics
    /\ alertStatus' = "Clear"
    /\ accepted' = 0
    /\ lastCall' = Call("startSession", IF isSessionActive THEN "whileActive" ELSE "ok")
    /\ recentSessions' = <<>>
    /\ localStorage' = AbsentSlot
    /\ UNCHANGED <<threshold, now, lastWriteOk>>

(***************************************************************************)
(* startSession (lines 640-672) and stopSession (lines 675-689).           *)
(***************************************************************************)
startSession ==
    /\ isSessionActive' = TRUE
    /\ sessionStartTime' = now
    /\ sessionData' = <<>>
    /\ totalAlerts' = 0
    /\ startSimulator
    /\ resetChart
    /\ statistics' = NoStatistics
    /\ alertStatus' = "Clear"
    /\ accepted' = 0
    /\ lastCall' = Call("startSession", IF isSessionActive THEN "whileActive" ELSE "ok")
    /\ UNCHANGED <<recentSessions, localStorage, threshold, now, lastWriteOk>>

stopSession(writeOk) ==
    /\ isSessionActive' = FALSE
    /\ stopSimulator
    /\ saveRecentSession(writeOk)
    /\ lastCall' = Call("stopSession", IF isSessionActive THEN "ok" ELSE "whileIdle")
    /\ UNCHANGED <<sessionStartTime, sessionData, totalAlerts, chart,
                   alertStatus, simulatorState, threshold, statistics, now,
                   accepted, pushed>>

\* an updateThreshold that counts the session's alerts again with the new value
updateThresholdRecounts(value) ==
    /\ threshold' = value
    /\ totalAlerts' =
           Cardinality({i \in 1..Len(sessionData) :
                           sessionData[i].drowsinessLevel.val >= value})
    /\ lastCall' = Call("updateThreshold", "ok")
    /\ UNCHANGED <<isSessionActive, sessionStartTime, sessionData,
                   chart, alertStatus, simulatorIntervalId, simulatorState,
                   timers, recentSessions, localStorage, statistics, now,
                   accepted, lastWriteOk, pushed>>

\* the user moves the threshold slider (updateThreshold only shows the value)
updateThreshold(value) ==
    /\ threshold' = value
    /\ lastCall' = Call("updateThreshold", "ok")
    /\ UNCHANGED <<isSessionActive, sessionStartTime, totalAlerts, sessionData,
                   chart, alertStatus, simulatorIntervalId, simulatorState,
                   timers, recentSessions, localStorage, statistics, now,
                   accepted, lastWriteOk, pushed>>

\* time passes, up to the next due timer
Advance(step) ==
    /\ \A t \in timers : t.due >= now + step
    /\ now' = now + step
    /\ UNCHANGED <<isSessionActive, sessionStartTime, totalAlerts, sessionData,
                   chart, alertStatus, simulatorIntervalId, simulatorState,
                   timers, recentSessions, localStorage, threshold, statistics,
                   lastCall, accepted, lastWriteOk, pushed>>

(***************************************************************************)
(* The page after DOMContentLoaded (lines 554-560): no session, an empty   *)
(* chart, the history loaded from whatever earlier visits left in the slot. *)
(***************************************************************************)
\* the summary the k-th last earlier visit recorded
PastSummary(k) ==
    [start |-> 0 - k * TickPeriodMs, end |-> TickPeriodMs - k * TickPeriodMs,
     durationMs |-> TickPeriodMs, totalAlerts |-> k % 2,
     avgBlinkRate |-> Ratio(15 + k, 1), peakDrowsiness |-> 40 + k,
     points |-> 1]
PastHistory(n) == [k \in 1..n |-> PastSummary(k)]

Thresholds == {50, 70}

InitWith(slots, thresholds) ==
    /\ isSessionActive = FALSE
    /\ sessionStartTime = NullTime
    /\ totalAlerts = 0
    /\ sessionData = <<>>
    /\ chart = EmptyChart
    /\ alertStatus = "Clear"
    /\ simulatorIntervalId = 0
    /\ simulatorState = InitialSimulatorState
    /\ timers = {}
    /\ localStorage \in slots
    /\ recentSessions = loadRecentSessions(localStorage)
    /\ threshold \in thresholds
    /\ statistics = NoStatistics
    /\ now = 0
    /\ lastCall = [op |-> "load", outcome |-> "ok"]
    /\ accepted = 0
    /\ lastWriteOk = TRUE
    /\ pushed = <<>>

(***************************************************************************)
(* The messages the transport and onESP32DataReceived deliver at time t.   *)
(***************************************************************************)
Complete(blink, drowsy, alert) ==
    [Message(Num(5000), blink, drowsy, alert, HeadOf(1, 0, 0), Num(9000))
        EXCEPT !.timestamp = DateOf(5000)]

\* well-formed samples without and with an alert, one whose drowsinessLevel
\* is NaN, one without batteryLevel, one without headMovement, one whose
\* eyeBlinkRate is a string, and null
Messages(t) ==
    { Complete(Num(10), Num(20), Bool(FALSE)),
      Complete(Num(20), Num(80), Bool(TRUE)),
      Complete(Num(20), NaN, Bool(FALSE)),
      [Complete(Num(20), Num(80), Bool(TRUE)) EXCEPT !.batteryLevel = Undefined],
      [Complete(Num(20), Num(80), Bool(TRUE)) EXCEPT !.headMovement = NoHead],
      Complete(Str, Num(80), Bool(TRUE)),
      NullMessage }

(***************************************************************************)
(* The simulator's random draws.                                           *)
(***************************************************************************)
Draw(spike, magnitude, noise) ==
    [spike |-> spike, cooldown |-> 2, axis |-> "roll", sign |-> 1,
     magnitude |-> magnitude,
     noise |-> [pitch |-> 0, roll |-> noise, yaw |-> 0],
     baselineBlink |-> 17, drowsyBase |-> 40, blinkAdd |-> 25, tiltAdd |-> 20,
     batteryDrop |-> 20]
Draws == {Draw(FALSE, 30, 0), Draw(TRUE, 40, 1)}

\* the samples summarised by the entries recorded since the page loaded
RECURSIVE PointsOf(_)
PointsOf(list) ==
    IF list = <<>> THEN 0
    ELSE (IF IsSummary(Head(list)) /\ Head(list).start >= 0
          THEN Head(list).points ELSE 0)
         + PointsOf(Tail(list))
\* the samples the page holds: the current session's and the recorded ones
Held == Len(sessionData) + PointsOf(recentSessions)

(***************************************************************************)
(* One step of the page: a handler runs on an input drawn from the given   *)
(* sets, or time passes.  M: the messages that may be delivered now, D: the *)
(* simulator's draws, T: the slider's values, W: whether setItem succeeds. *)
(***************************************************************************)
Step(M, D, T, W, maxHeld, maxSteps, clockStep) ==
    \/ startSession
    \/ \E writeOk \in W :
          /\ Held <= maxHeld
          /\ stopSession(writeOk)
    \/ \E m \in M :
          /\ Held < maxHeld
          /\ ReceiveSensorData(m)
    \/ \E m \in M :
          /\ Held < maxHeld
          /\ onESP32DataReceived(m)
    \/ \E rnd \in D :
          /\ Held < maxHeld
          /\ TimerFires(rnd)
    \/ \E v \in T : updateThreshold(v)
    \/ now < maxSteps * clockStep /\ Advance(clockStep)

Init == InitWith({AbsentSlot}, Thresholds)

Next ==
    Step(Messages(now), Draws, Thresholds, {TRUE}, MaxHeld, MaxSteps, TickPeriodMs)

Spec == Init /\ [][Next]_vars

(***************************************************************************)
(* C1: stopSession is idempotent: a stopSession called right after a      *)
(* stopSession changes neither the history (recentSessions and the         *)
(* localStorage slot) nor the samples, the alert counter or the active     *)
(* flag.                                                                   *)
(***************************************************************************)
C1_StopIsIdempotent ==
    [][(lastCall.op = "stopSession" /\ \E w \in BOOLEAN : stopSession(w))
         => /\ recentSessions' = recentSessions
            /\ localStorage' = localStorage
            /\ sessionData' = sessionData
            /\ totalAlerts' = totalAlerts
            /\ isSessionActive' = isSessionActive]_vars

\* a handler that takes a message ran (any ingress path)
Ingest ==
    \/ \E m \in Messages(now) : ReceiveSensorData(m) \/ onESP32DataReceived(m)
    \/ \E rnd \in Draws : TimerFires(rnd)

(***************************************************************************)
(* C2: a sample is ingested only while the session is active: on every     *)
(* ingress path an ingest attempted while the session is stopped (after a  *)
(* session has run) leaves the samples, the alert counter and the chart's  *)
(* window unchanged.                                                       *)
(***************************************************************************)
C2_IngestOnlyWhileActive ==
    [][(~isSessionActive /\ sessionStartTime # NullTime /\ Ingest)
         => /\ sessionData' = sessionData
            /\ totalAlerts' = totalAlerts
            /\ chart' = chart]_vars

(***************************************************************************)
(* C3: startSession called while a session is active is a no-op: the       *)
(* samples, the alert counter, the start time and the chart's window of    *)
(* the running session stay as they were.                                  *)
(***************************************************************************)
C3_StartWhileActiveKeepsSession ==
    [][(isSessionActive /\ startSession)
         => /\ sessionData' = sessionData
            /\ totalAlerts' = totalAlerts
            /\ sessionStartTime' = sessionStartTime
            /\ chart' = chart]_vars

(***************************************************************************)
(* The history's specification: the page loads an empty, an almost full or *)
(* a full history; writes to the slot may fail.                            *)
(***************************************************************************)
HistoryMessages(t) ==
    { Complete(Num(10), Num(20), Bool(FALSE)),
      Complete(Num(20), Num(80), Bool(TRUE)),
      [Complete(Num(20), Num(80), Bool(TRUE)) EXCEPT !.headMovement = NoHead] }

InitHistory ==
    InitWith({AbsentSlot, ArraySlot(PastHistory(HistoryCapacity - 1)),
              ArraySlot(PastHistory(HistoryCapacity))}, {70})

NextHistory ==
    Step(HistoryMessages(now), {Draw(FALSE, 30, 0)}, {70}, BOOLEAN, MaxHeld, MaxSteps,
         TickPeriodMs)

SpecHistory == InitHistory /\ [][NextHistory]_vars

(***************************************************************************)
(* C4: stopSession on a session without samples adds no history entry;     *)
(* stopSession on an active session with at least one sample puts exactly  *)
(* one summary of that session at the front, moves every earlier entry     *)
(* down by one in the same order, and keeps the first 10 entries.          *)
(***************************************************************************)
C4_StopRecordsOneSummary ==
    [][(\E w \in BOOLEAN : stopSession(w))
         => IF Len(sessionData) = 0
            THEN recentSessions' = recentSessions
            ELSE isSessionActive
                 => /\ Len(recentSessions') =
                          Min(Len(recentSessions) + 1, HistoryCapacity)
                    /\ recentSessions'[1].start = sessionStartTime
                    /\ recentSessions'[1].end = now
                    /\ recentSessions'[1].points = Len(sessionData)
                    /\ \A i \in 2..Len(recentSessions') :
                          recentSessions'[i] = recentSessions[i - 1]]_vars

\* a stop has recorded a session into a full history: the oldest entry is gone
C4_Witness ==
    /\ lastCall = Call("stopSession", "ok")
    /\ Len(recentSessions) = HistoryCapacity
    /\ recentSessions[1].start >= 0
    /\ recentSessions[1].points >= 1
    /\ recentSessions[HistoryCapacity] = PastSummary(HistoryCapacity - 1)

(***************************************************************************)
(* C5: the simulator's interval timer never leaks and is never scheduled   *)
(* twice: at most one timer is scheduled, exactly one while the session is *)
(* active (so also after a start that follows a stop) and none once it is  *)
(* stopped; the scheduled timer is the one simulatorIntervalId names.      *)
(***************************************************************************)
C5_OneTimerWhileActive ==
    /\ Cardinality(timers) <= 1
    /\ isSessionActive => Cardinality(timers) = 1
    /\ ~isSessionActive => timers = {}
    /\ TimerIds = IF simulatorIntervalId = 0 THEN {} ELSE {simulatorIntervalId}

\* a session was recorded and a new one has just been started: one timer
C5_Witness ==
    /\ lastCall = Call("startSession", "ok")
    /\ recentSessions # <<>>
    /\ Cardinality(timers) = 1

(***************************************************************************)
(* C6: every sample in an active session's sample sequence has             *)
(* headMovement present and an eyeBlinkRate and a drowsinessLevel that are *)
(* finite numbers (a message with NaN or an infinity there is rejected).   *)
(***************************************************************************)
C6_AcceptedSamplesAreFinite ==
    isSessionActive =>
        \A i \in 1..Len(sessionData) :
            /\ sessionData[i].headMovement.tag # "undef"
            /\ IsFinite(sessionData[i].eyeBlinkRate)
            /\ IsFinite(sessionData[i].drowsinessLevel)

(***************************************************************************)
(* C7: a message that fails validation is dropped: the handler returns     *)
(* normally (no error propagates) and the samples, the chart's window, the *)
(* alert counter, the active flag and the history are as before.           *)
(***************************************************************************)
C7_MalformedIsDropped ==
    [][\A m \in Messages(now) :
          (Rejected(m) /\ (ReceiveSensorData(m) \/ onESP32DataReceived(m)))
            => /\ lastCall'.outcome # "threw"
               /\ UNCHANGED <<sessionData, chart, totalAlerts, isSessionActive,
                              recentSessions, localStorage>>]_vars

(***************************************************************************)
(* C8: while the session is active, the length of the sample sequence is   *)
(* the number of messages the validation accepted since startSession;      *)
(* rejected messages do not add to it.                                     *)
(***************************************************************************)
C8_LengthIsAcceptedCount ==
    isSessionActive => Len(sessionData) = accepted

\* an active session holding an accepted sample has just rejected a message
C8_Witness ==
    /\ isSessionActive
    /\ accepted >= 1
    /\ lastCall.outcome = "rejected"

(***************************************************************************)
(* C10: every sample accepted by an active session adds exactly 1 to the   *)
(* alert counter when its alertTriggered is true and 0 otherwise, whatever *)
(* the threshold is.                                                       *)
(***************************************************************************)
C10_AlertCountedPerSample ==
    [][(isSessionActive /\ Ingest /\ Len(sessionData') = Len(sessionData) + 1)
         => totalAlerts' = totalAlerts +
               (IF sessionData'[Len(sessionData')].alertTriggered = Bool(TRUE)
                THEN 1 ELSE 0)]_vars

(***************************************************************************)
(* The window's specification: long runs of well-formed samples, the k-th  *)
(* of a session carrying k in its values and the time in its timestamp.    *)
(***************************************************************************)
WindowMessages(t, k) ==
    { [Complete(Num(10 + (k % 7)), Num(k % 101), Bool(k % 2 = 1))
          EXCEPT !.Timestamp = Num(t), !.timestamp = DateOf(t)] }

InitWindow == InitWith({AbsentSlot}, {70})

NextWindow ==
    \/ startSession
    \/ /\ Held <= MaxHeld
       /\ stopSession(TRUE)
    \/ \E m \in WindowMessages(now, Len(sessionData)) :
          /\ Len(sessionData) < MaxPushes
          /\ ReceiveSensorData(m)
    \/ \E m \in WindowMessages(now, Len(sessionData)) :
          /\ Len(sessionData) < MaxPushes
          /\ onESP32DataReceived(m)
    \/ /\ Held < MaxHeld
       /\ TimerFires(Draw(FALSE, 30, 0))
    \/ updateThreshold(70)
    \/ /\ now < MaxSteps * TickPeriodMs
       /\ Advance(TickPeriodMs)

SpecWindow == InitWindow /\ [][NextWindow]_vars

\* the (time label, drowsinessLevel, eyeBlinkRate) projections of the last
\* n samples of a log
LastProjected(log, n) ==
    LET m == Min(n, Len(log))
        last == SubSeq(log, Len(log) - m + 1, Len(log))
    IN  [labels |-> [i \in 1..m |-> ToLocaleTimeString(last[i].timestamp)],
         drowsiness |-> [i \in 1..m |-> last[i].drowsinessLevel],
         blink |-> [i \in 1..m |-> last[i].eyeBlinkRate]]

(***************************************************************************)
(* C9: the chart's window is a FIFO of capacity 20: it never holds more    *)
(* than 20 points, and after k pushes since the last reset it holds the    *)
(* last min(k, 20) pushed samples in arrival order.                        *)
(***************************************************************************)
C9_WindowIsLastTwenty ==
    /\ Len(chart.labels) <= 20
    /\ Len(chart.drowsiness) <= 20
    /\ Len(chart.blink) <= 20
    /\ chart = LastProjected(pushed, 20)

\* more than 20 samples were pushed: the window starts at the 20th last
C9_Witness ==
    /\ Len(pushed) > 20
    /\ Len(chart.labels) = 20
    /\ chart.drowsiness[1] = pushed[Len(pushed) - 19].drowsinessLevel
    /\ chart.drowsiness[1] # pushed[1].drowsinessLevel

(***************************************************************************)
(* C11: every startSession leaves the chart's window empty, the alert      *)
(* counter at 0 and the sample sequence empty, whatever the state before   *)
(* it (a full window, counted alerts, samples ingested after a stop).      *)
(***************************************************************************)
C11_StartResetsSession ==
    [][startSession
         => /\ chart' = EmptyChart
            /\ totalAlerts' = 0
            /\ sessionData' = <<>>]_vars

\* a session that counted an alert was recorded and a new one has started
C11_Witness ==
    /\ lastCall = Call("startSession", "ok")
    /\ recentSessions # <<>>
    /\ recentSessions[1].totalAlerts > 0
    /\ chart = EmptyChart
    /\ totalAlerts = 0
    /\ sessionData = <<>>

\* the reference statistics of a sequence of samples with finite values: the
\* arithmetic mean of eyeBlinkRate and the maximum of drowsinessLevel
RECURSIVE BlinkTotal(_, _)
BlinkTotal(data, n) ==
    IF n = 0 THEN 0 ELSE data[n].eyeBlinkRate.val + BlinkTotal(data, n - 1)
PeakOf(data) ==
    CHOOSE v \in {data[i].drowsinessLevel.val : i \in 1..Len(data)} :
        \A i \in 1..Len(data) : v >= data[i].drowsinessLevel.val
AllFinite(data) ==
    \A i \in 1..Len(data) :
        IsFinite(data[i].eyeBlinkRate) /\ IsFinite(data[i].drowsinessLevel)

(***************************************************************************)
(* C12: in an active session whose samples are finite, the statistics on   *)
(* the page are those of the whole sample sequence: the average blink rate *)
(* is the arithmetic mean of eyeBlinkRate and the peak drowsiness the      *)
(* maximum of drowsinessLevel (both shown to one decimal); with no samples *)
(* no statistics are shown.                                                *)
(***************************************************************************)
C12_StatisticsMatchSamples ==
    (isSessionActive /\ AllFinite(sessionData))
        => IF sessionData = <<>>
           THEN statistics = NoStatistics
           ELSE /\ statistics.avgBlinkRate.tag = "fixed"
                /\ statistics.peakDrowsiness.tag = "fixed"
                \* the mean rounded to a tenth: |10 * mean - shown| <= 1/2
                /\ 2 * Abs(10 * BlinkTotal(sessionData, Len(sessionData))
                           - statistics.avgBlinkRate.val * Len(sessionData))
                      <= Len(sessionData)
                /\ statistics.peakDrowsiness.val = 10 * PeakOf(sessionData)

(***************************************************************************)
(* The page is loaded again (the browser restarts or the page is reloaded): *)
(* every global starts over and the history is read from the slot.         *)
(***************************************************************************)
Reload ==
    /\ isSessionActive' = FALSE
    /\ sessionStartTime' = NullTime
    /\ totalAlerts' = 0
    /\ sessionData' = <<>>
    /\ chart' = EmptyChart
    /\ alertStatus' = "Clear"
    /\ simulatorIntervalId' = 0
    /\ simulatorState' = InitialSimulatorState
    /\ timers' = {}
    /\ recentSessions' = loadRecentSessions(localStorage)
    /\ statistics' = NoStatistics
    /\ lastCall' = Call("load", "ok")
    /\ accepted' = 0
    /\ lastWriteOk' = TRUE
    /\ pushed' = <<>>
    /\ UNCHANGED <<localStorage, threshold, now>>

(***************************************************************************)
(* The load specification: the slot holds anything an earlier visit, another *)
(* script of the origin or the user may have left in it, writes may fail,  *)
(* and the page may be loaded again at any moment.                         *)
(***************************************************************************)
LoadSlots ==
    { AbsentSlot, UnreadableSlot, UnparseableSlot, NotArraySlot,
      ArraySlot(<<Junk>>), ArraySlot(PastHistory(2)),
      ArraySlot(PastHistory(HistoryCapacity + 1)) }

InitLoad == InitWith(LoadSlots, {70})

NextLoad ==
    \/ Step({Complete(Num(20), Num(80), Bool(TRUE))}, {Draw(FALSE, 30, 0)},
            {70}, BOOLEAN, MaxHeld, MaxSteps, TickPeriodMs)
    \/ Reload

SpecLoad == InitLoad /\ [][NextLoad]_vars

\* the slot holds the JSON text of an array of summaries
WellFormedSlot(slot) ==
    /\ slot.tag = "array"
    /\ \A i \in 1..Len(slot.val) : IsSummary(slot.val[i])

(***************************************************************************)
(* C13: loading the history never fails, and right after a load the        *)
(* history is the persisted sequence when the slot holds a well-formed     *)
(* sequence of summaries and is empty otherwise (slot absent, unreadable,  *)
(* unparseable or malformed).                                              *)
(***************************************************************************)
C13_LoadDegradesToEmpty ==
    lastCall.op = "load"
        => /\ lastCall.outcome = "ok"
           /\ recentSessions = IF WellFormedSlot(localStorage)
                               THEN localStorage.val ELSE <<>>

(***************************************************************************)
(* C14: the history survives a restart: the history loaded when the page   *)
(* is loaded again is the in-memory history as the last stopSession left   *)
(* it.                                                                     *)
(***************************************************************************)
C14_HistorySurvivesRestart ==
    [][Reload => recentSessions' = recentSessions]_vars

(***************************************************************************)
(* C14, amended: when no write of the slot has failed since the history    *)
(* was last loaded or written, the history loaded when the page is loaded  *)
(* again is the in-memory history as the last stopSession left it.         *)
(***************************************************************************)
C14_WrittenHistorySurvivesRestart ==
    [][(Reload /\ lastWriteOk) => recentSessions' = recentSessions]_vars

\* the page was loaded again and shows a session recorded before the restart
C14_Witness ==
    /\ lastCall = Call("load", "ok")
    /\ recentSessions # <<>>
    /\ IsSummary(recentSessions[1])
    /\ recentSessions[1].start >= 0
    /\ recentSessions[1].points >= 1

(***************************************************************************)
(* The legacy specification: a producer that sends no alertTriggered flag, *)
(* next to one that does.                                                  *)
(***************************************************************************)
LegacyMessages ==
    { Complete(Num(20), Num(80), Undefined),
      Complete(Num(20), Num(50), Undefined),
      Complete(Num(10), Num(20), Undefined),
      Complete(Num(20), Num(80), Bool(TRUE)) }

InitLegacy == InitWith({AbsentSlot}, Thresholds)

NextLegacy ==
    Step(LegacyMessages, {Draw(FALSE, 30, 0)}, Thresholds, {TRUE}, MaxHeld,
         MaxSteps, TickPeriodMs)

SpecLegacy == InitLegacy /\ [][NextLegacy]_vars

(***************************************************************************)
(* C15: an accepted sample without an alertTriggered flag is an alert      *)
(* (alert status Active, counter plus one) exactly when its                *)
(* drowsinessLevel is at or above the threshold set on the slider.         *)
(***************************************************************************)
C15_LegacyFallsBackToThreshold ==
    [][\A m \in LegacyMessages :
          (/\ isSessionActive
           /\ m.alertTriggered = Undefined
           /\ ReceiveSensorData(m) \/ onESP32DataReceived(m))
            => IF m.drowsinessLevel.val >= threshold
               THEN totalAlerts' = totalAlerts + 1 /\ alertStatus' = "Active"
               ELSE totalAlerts' = totalAlerts /\ alertStatus' = "Clear"]_vars

(***************************************************************************)
(* The battery specification: one long session of simulator ticks, the     *)
(* battery's decay running through 0.15, 0.16, ... 0.24 and over again.    *)
(***************************************************************************)
BatteryDraws(t) ==
    { [Draw(FALSE, 30, 0) EXCEPT
          !.batteryDrop = 15 + ((t \div TickPeriodMs) % 10)] }

InitBattery == InitWith({AbsentSlot}, {70})

NextBattery ==
    \/ /\ sessionData = <<>>
       /\ now <= MaxSteps * TickPeriodMs
       /\ startSession
    \/ /\ Held <= MaxHeld
       /\ stopSession(TRUE)
    \/ \E rnd \in BatteryDraws(now) :
          /\ Len(sessionData) < MaxTicks
          /\ TimerFires(rnd)
    \/ /\ IF timers = {} THEN now < MaxSteps * TickPeriodMs
                         ELSE now < MaxTicks * TickPeriodMs
       /\ Advance(TickPeriodMs)

SpecBattery == InitBattery /\ [][NextBattery]_vars

(***************************************************************************)
(* C16: the simulator's battery level never drops below 5, and over the    *)
(* steps of a running session (its ticks) it never increases.              *)
(***************************************************************************)
C16_BatteryDecaysToFloor ==
    [][/\ simulatorState'.batteryLevel >= 5 * 100
       /\ (isSessionActive /\ isSessionActive')
            => simulatorState'.batteryLevel <= simulatorState.batteryLevel]_vars

\* a tick of a running session has found the battery at its floor
C16_Witness ==
    /\ isSessionActive
    /\ lastCall.op = "simulatorTick"
    /\ simulatorState.batteryLevel = 5 * 100
    /\ sessionData[Len(sessionData)].batteryLevel = Num(5 * 100)
    /\ sessionData[Len(sessionData) - 1].batteryLevel = Num(5 * 100)

(***************************************************************************)
(* The tilt specification: a few ticks whose draws start spikes on each    *)
(* axis, in both directions, with both cooldowns and with observed angles  *)
(* of exactly 30, of 31 and of 40 degrees; sessions are stopped and        *)
(* started in between.                                                     *)
(***************************************************************************)
NoNoise == [pitch |-> 0, roll |-> 0, yaw |-> 0]

TiltDraws ==
    { Draw(FALSE, 30, 0),
      [Draw(TRUE, 30, 0) EXCEPT !.axis = "pitch"],
      [Draw(TRUE, 30, 0) EXCEPT !.cooldown = 3, !.sign = -1,
                                !.noise = [NoNoise EXCEPT !.roll = -1]],
      [Draw(TRUE, 40, 0) EXCEPT !.axis = "yaw"] }

InitTilt == InitWith({AbsentSlot}, {70})

NextTilt ==
    \/ startSession
    \/ /\ Held <= MaxHeld
       /\ stopSession(TRUE)
    \/ \E rnd \in TiltDraws : TimerFires(rnd)
    \/ /\ now < MaxTiltTicks * TickPeriodMs
       /\ Advance(TickPeriodMs)

SpecTilt == InitTilt /\ [][NextTilt]_vars

\* the axes with a base deflection
Deflected == {a \in Axes : simulatorState.baseTilt[a] # 0}

(***************************************************************************)
(* C17: in every state, so at every tick across spikes, cooldowns, stops   *)
(* and restarts, at most one of pitch, roll and yaw has a nonzero base     *)
(* deflection.                                                             *)
(***************************************************************************)
C17_OneAxisDeflected == Cardinality(Deflected) <= 1

\* a spike on pitch has ended and a later spike deflects another axis
C17_Witness ==
    /\ isSessionActive
    /\ \E i \in 1..Len(sessionData) : sessionData[i].headMovement.pitch >= 30
    /\ simulatorState.baseTilt.pitch = 0
    /\ Deflected # {}

\* the largest absolute angle of a sample's headMovement
LargestAngle(head) ==
    CHOOSE v \in {Abs(head.pitch), Abs(head.roll), Abs(head.yaw)} :
        /\ v >= Abs(head.pitch)
        /\ v >= Abs(head.roll)
        /\ v >= Abs(head.yaw)

(***************************************************************************)
(* C18: the tilt-exceeded flag of a generated sample is true exactly when  *)
(* the largest absolute value of its observed pitch, roll and yaw is       *)
(* strictly above 30.  The flag is observed in the sample's alertTriggered, *)
(* which is the flag itself when the drowsinessLevel is below the          *)
(* threshold.                                                              *)
(***************************************************************************)
C18_TiltExceededAboveThirty ==
    \A i \in 1..Len(sessionData) :
        sessionData[i].drowsinessLevel.val < threshold
            => (sessionData[i].alertTriggered = Bool(TRUE)
                  <=> LargestAngle(sessionData[i].headMovement) > 30)

\* one sample at exactly 30 degrees without the flag, one at 31 with it
C18_Witness ==
    /\ \E i \in 1..Len(sessionData) :
          /\ LargestAngle(sessionData[i].headMovement) = 30
          /\ sessionData[i].alertTriggered = Bool(FALSE)
    /\ \E j \in 1..Len(sessionData) :
          /\ LargestAngle(sessionData[j].headMovement) = 31
          /\ sessionData[j].drowsinessLevel.val < threshold
          /\ sessionData[j].alertTriggered = Bool(TRUE)

(***************************************************************************)
(* C19: a summary is computed once, when an active session is stopped,     *)
(* from all of its samples: the step that adds an entry to the history is  *)
(* the stop of an active session; the entry's totalAlerts is the alert     *)
(* counter, its points the number of samples, its durationMs end minus     *)
(* start, its avgBlinkRate and peakDrowsiness the mean and the maximum     *)
(* over the (finite) samples; and the entries recorded earlier are only    *)
(* moved down by one or evicted, never changed.                            *)
(***************************************************************************)
C19_SummaryComputedOnceAtStop ==
    [][(recentSessions' # recentSessions /\ AllFinite(sessionData))
         => /\ isSessionActive
            /\ recentSessions'[1].start = sessionStartTime
            /\ recentSessions'[1].end = now
            /\ recentSessions'[1].durationMs = now - sessionStartTime
            /\ recentSessions'[1].totalAlerts = totalAlerts
            /\ recentSessions'[1].points = Len(sessionData)
            /\ recentSessions'[1].avgBlinkRate.num * Len(sessionData)
                  = BlinkTotal(sessionData, Len(sessionData))
                      * recentSessions'[1].avgBlinkRate.den
            /\ recentSessions'[1].peakDrowsiness = PeakOf(sessionData)
            /\ \A i \in 2..Len(recentSessions') :
                  recentSessions'[i] = recentSessions[i - 1]]_vars

(***************************************************************************)
(* C20: in every state, also right after the history was loaded from       *)
(* whatever the slot holds, the in-memory history has at most 10 entries.  *)
(***************************************************************************)
C20_HistoryAtMostTen == Len(recentSessions) <= 10

(***************************************************************************)
(* The threshold specification: the slider is moved between 40 and 70      *)
(* while the simulator ticks; a tick without blink and tilt produces a     *)
(* drowsinessLevel of 40, one with a blink 65.                             *)
(***************************************************************************)
SliderValues == {40, 70}

InitThreshold == InitWith({AbsentSlot}, SliderValues)

NextThreshold ==
    \/ startSession
    \/ /\ Held <= MaxHeld
       /\ stopSession(TRUE)
    \/ \E rnd \in Draws : TimerFires(rnd)
    \/ \E v \in SliderValues : updateThreshold(v)
    \/ /\ now < MaxThresholdTicks * TickPeriodMs
       /\ Advance(TickPeriodMs)

SpecThreshold == InitThreshold /\ [][NextThreshold]_vars

(***************************************************************************)
(* C21: the threshold is read when a sample is evaluated and never applied *)
(* to earlier samples: moving the slider changes neither the alert counter *)
(* nor any sample, no later step changes a sample already in the session,  *)
(* and a sample the simulator generates afterwards is flagged by the       *)
(* threshold set at its tick.                                              *)
(***************************************************************************)
C21_ThresholdNotRetroactive ==
    [][/\ (\E v \in SliderValues : updateThreshold(v))
            => /\ totalAlerts' = totalAlerts
               /\ sessionData' = sessionData
       /\ Len(sessionData') >= Len(sessionData)
            => SubSeq(sessionData', 1, Len(sessionData)) = sessionData
       /\ (isSessionActive /\ \E rnd \in Draws : TimerFires(rnd))
            => LET s == sessionData'[Len(sessionData')]
               IN  /\ s.drowsinessLevel.val >= threshold
                        => s.alertTriggered = Bool(TRUE)
                   /\ (s.drowsinessLevel.val < threshold
                       /\ LargestAngle(s.headMovement) <= 30)
                        => s.alertTriggered = Bool(FALSE)]_vars

\* the slider was moved to a value under which an earlier sample of the
\* running session would have been an alert: the sample and the counter stay
C21_Witness ==
    /\ isSessionActive
    /\ lastCall.op = "updateThreshold"
    /\ totalAlerts = 0
    /\ \E i \in 1..Len(sessionData) :
          /\ sessionData[i].alertTriggered = Bool(FALSE)
          /\ sessionData[i].drowsinessLevel.val >= threshold

(***************************************************************************)
(* C22: ingest is all-or-nothing: in an active session, between handlers,  *)
(* the chart's window is the projection of the last min(20, n) samples of  *)
(* the sample sequence, every sample of the sequence was pushed to the     *)
(* window, and the alert counter counts the samples whose alertTriggered   *)
(* is set; no accepted sample is stored with the remaining steps skipped.  *)
(***************************************************************************)
C22_IngestIsAllOrNothing ==
    isSessionActive
        => /\ chart = LastProjected(sessionData, 20)
           /\ Len(pushed) = Len(sessionData)
           /\ totalAlerts =
                 Cardinality({i \in 1..Len(sessionData) :
                                 Truthy(sessionData[i].alertTriggered)})

(***************************************************************************)
(* C23: nothing in the ingestion path ends or restarts a session: a        *)
(* message delivered by the transport or by onESP32DataReceived, valid or  *)
(* malformed, and a simulator tick leave the active flag and the session's *)
(* start time as they were.                                                *)
(***************************************************************************)
C23_IngestKeepsSession ==
    [][Ingest => /\ isSessionActive' = isSessionActive
                 /\ sessionStartTime' = sessionStartTime]_vars

\* the transport callback has thrown on a null message: the session goes on
C23_Witness ==
    /\ lastCall = Call("ReceiveSensorData", "threw")
    /\ isSessionActive
    /\ sessionStartTime # NullTime
    /\ simulatorIntervalId # 0

(***************************************************************************)
(* C24: stopSession leaves the session's data in place: the step itself    *)
(* changes neither the sample sequence nor the alert counter, and while    *)
(* the session stays stopped (until the next startSession) they remain     *)
(* what they were.                                                         *)
(***************************************************************************)
C24_StoppedDataStays ==
    [][/\ (\E w \in BOOLEAN : stopSession(w))
            => /\ sessionData' = sessionData
               /\ totalAlerts' = totalAlerts
       /\ (/\ ~isSessionActive
           /\ ~isSessionActive'
           /\ sessionStartTime # NullTime)
            => /\ sessionData' = sessionData
               /\ totalAlerts' = totalAlerts]_vars

(***************************************************************************)
(* C25: the simulator produces samples only while the session is active:   *)
(* a tick that fires while it is active appends exactly one sample, which  *)
(* passes the validation and is fully formed (finite rates, the three      *)
(* angles, a battery level and a Date), and a tick that fires while it is  *)
(* stopped appends nothing.                                                *)
(***************************************************************************)
C25_TickAppendsOneSample ==
    [][(\E rnd \in Draws : TimerFires(rnd))
         => IF isSessionActive
            THEN /\ Len(sessionData') = Len(sessionData) + 1
                 /\ SubSeq(sessionData', 1, Len(sessionData)) = sessionData
                 /\ LET s == sessionData'[Len(sessionData')]
                    IN  /\ ~Rejected(s)
                        /\ ~DisplayThrows(s)
                        /\ IsFinite(s.eyeBlinkRate)
                        /\ IsFinite(s.drowsinessLevel)
                        /\ IsFinite(s.batteryLevel)
                        /\ s.alertTriggered.tag = "bool"
                        /\ s.timestamp = DateOf(now)
                 /\ lastCall' = Call("simulatorTick", "ok")
            ELSE sessionData' = sessionData]_vars

\* a tick has appended its sample to the running session
C25_Witness ==
    /\ isSessionActive
    /\ lastCall = Call("simulatorTick", "ok")
    /\ sessionData # <<>>
    /\ sessionData[Len(sessionData)].timestamp = DateOf(now)
    /\ sessionData[Len(sessionData)].Timestamp = Undefined

\* a sample of the simulator carries no Timestamp field of the device
Generated(sample) == sample.Timestamp = Undefined

(***************************************************************************)
(* C26: the simulator feeds a session only when the transport does not:    *)
(* the samples of an active session are never a mix of samples delivered   *)
(* by the transport and samples the simulator generated.                   *)
(***************************************************************************)
C26_NoMixedSources ==
    isSessionActive
        => ~ /\ \E i \in 1..Len(sessionData) : Generated(sessionData[i])
             /\ \E j \in 1..Len(sessionData) : ~Generated(sessionData[j])

(***************************************************************************)
(* C27: the simulator's state is reset at every session start and only     *)
(* then: every startSession leaves the battery level at 100, the tilt      *)
(* cooldown at 0 and the three base deflections at 0, so that the          *)
(* session's first tick starts from there, and no other step raises the    *)
(* battery level.                                                          *)
(***************************************************************************)
C27_SimulatorResetAtStart ==
    [][/\ startSession
            => /\ simulatorState'.batteryLevel = 100 * 100
               /\ simulatorState'.tiltCooldown = 0
               /\ simulatorState'.baseTilt = ZeroTilt
       /\ simulatorState'.batteryLevel > simulatorState.batteryLevel
            => startSession]_vars

(***************************************************************************)
(* C28: for every sample the simulator generates, alertTriggered is true   *)
(* exactly when the sample's drowsinessLevel is greater than or equal to   *)
(* the threshold configured at that tick or its observed head angles       *)
(* exceed the tilt limit.                                                  *)
(***************************************************************************)
C28_AlertFormula ==
    [][(isSessionActive /\ \E rnd \in Draws : TimerFires(rnd))
         => LET s == sessionData'[Len(sessionData')]
            IN  s.alertTriggered
                  = Bool(\/ s.drowsinessLevel.val >= threshold
                         \/ LargestAngle(s.headMovement) > TiltLimit)]_vars

\* the last tick produced a sample whose drowsinessLevel equals the
\* threshold, with no tilt, and flagged it
C28_Witness ==
    /\ isSessionActive
    /\ lastCall = Call("simulatorTick", "ok")
    /\ LET s == sessionData[Len(sessionData)]
       IN  /\ s.drowsinessLevel.val = threshold
           /\ LargestAngle(s.headMovement) <= TiltLimit
           /\ s.alertTriggered = Bool(TRUE)

(***************************************************************************)
(* C29: the blink timer is initialised at every session start; a tick      *)
(* fires the blink event exactly when at least 3000 ms have passed since   *)
(* the last fire, a firing tick sets the blink timer to its own time and   *)
(* reports an eyeBlinkRate of exactly 20, and any other tick leaves the    *)
(* timer alone and reports a rate in [15, 21).                             *)
(***************************************************************************)
C29_BlinkEveryThreeSeconds ==
    [][/\ startSession => simulatorState'.lastBlinkMs = now
       /\ (isSessionActive /\ \E rnd \in Draws : TimerFires(rnd))
            => LET s == sessionData'[Len(sessionData')]
               IN  IF now - simulatorState.lastBlinkMs >= BlinkIntervalMs
                   THEN /\ simulatorState'.lastBlinkMs = now
                        /\ s.eyeBlinkRate = Num(20)
                   ELSE /\ simulatorState'.lastBlinkMs
                             = simulatorState.lastBlinkMs
                        /\ s.eyeBlinkRate.val >= 15
                        /\ s.eyeBlinkRate.val < 21]_vars

(***************************************************************************)
(* C30: a tilt spike starts only on a tick where no spike is cooling down; *)
(* it sets one axis to a magnitude in [30, 50) and a cooldown of 2 or 3    *)
(* ticks; every later tick with the cooldown above zero counts it down by  *)
(* one and keeps the deflection while the cooldown stays above zero; the   *)
(* tick that brings the cooldown to zero resets all three base deflections *)
(* to zero.                                                                *)
(***************************************************************************)
C30_TiltSpikeCycle ==
    [][(isSessionActive /\ \E rnd \in TiltDraws : TimerFires(rnd))
         => LET before == simulatorState
                after == simulatorState'
            IN  IF before.tiltCooldown > 0
                THEN /\ after.tiltCooldown = before.tiltCooldown - 1
                     /\ after.baseTilt = IF after.tiltCooldown > 0
                                         THEN before.baseTilt ELSE ZeroTilt
                ELSE \/ /\ after.tiltCooldown = 0
                        /\ after.baseTilt = before.baseTilt
                     \/ /\ after.tiltCooldown \in {2, 3}
                        /\ \E a \in Axes :
                              /\ Abs(after.baseTilt[a]) >= 30
                              /\ Abs(after.baseTilt[a]) < 50
                              /\ \A b \in Axes \ {a} :
                                    after.baseTilt[b] = before.baseTilt[b]]_vars

\* a spike has run its whole cycle in the running session: two samples with
\* the deflection, then the tick that brought the cooldown to zero
C30_Witness ==
    /\ isSessionActive
    /\ lastCall = Call("simulatorTick", "ok")
    /\ simulatorState.tiltCooldown = 0
    /\ simulatorState.baseTilt = ZeroTilt
    /\ Len(sessionData) >= 3
    /\ LET n == Len(sessionData)
       IN  /\ LargestAngle(sessionData[n].headMovement) < 30
           /\ LargestAngle(sessionData[n - 1].headMovement) >= 30
           /\ LargestAngle(sessionData[n - 2].headMovement) >= 30

(***************************************************************************)
(* The drowsiness heuristic at the ends of its random ranges: the smallest *)
(* and the largest base without a spike, with the noise at the ends of its *)
(* band, and the largest base and additions with a spike (lines 512-514,   *)
(* 528-530).                                                               *)
(***************************************************************************)
DrowsyDraws ==
    { Draw(FALSE, 30, 0),
      [Draw(FALSE, 30, 0) EXCEPT !.drowsyBase = 35, !.blinkAdd = 20,
                                 !.noise = [NoNoise EXCEPT !.pitch = -2]],
      [Draw(FALSE, 30, 0) EXCEPT !.drowsyBase = 49, !.blinkAdd = 29,
                                 !.noise = [NoNoise EXCEPT !.yaw = 1]],
      [Draw(TRUE, 40, 1) EXCEPT !.drowsyBase = 49, !.blinkAdd = 29,
                                !.tiltAdd = 34] }

\* the clock of the drowsiness runs stops after this many tick periods
MaxDrowsyTicks == 3

InitDrowsy == InitWith({AbsentSlot}, {70})

NextDrowsy ==
    \/ startSession
    \/ /\ Held <= MaxHeld
       /\ stopSession(TRUE)
    \/ \E rnd \in DrowsyDraws : TimerFires(rnd)
    \/ /\ now < MaxDrowsyTicks * TickPeriodMs
       /\ Advance(TickPeriodMs)

SpecDrowsy == InitDrowsy /\ [][NextDrowsy]_vars

(***************************************************************************)
(* C31: every generated drowsinessLevel lies in [0, 100] and is the base   *)
(* in [35, 50), plus an amount in [20, 30) exactly when the blink fired at *)
(* the tick, plus an amount in [20, 35) exactly when the tilt was exceeded *)
(* at the tick, clamped to [0, 100]: below 50 when neither happened.       *)
(***************************************************************************)
C31_DrowsinessRange ==
    [][(isSessionActive /\ \E rnd \in DrowsyDraws : TimerFires(rnd))
         => LET s == sessionData'[Len(sessionData')]
                fired == now - simulatorState.lastBlinkMs >= BlinkIntervalMs
                exceeded == LargestAngle(s.headMovement) > TiltLimit
                level == s.drowsinessLevel.val
            IN  /\ level >= 0
                /\ level <= 100
                /\ \E base \in 35..49 :
                   \E blink \in (IF fired THEN 20..29 ELSE {0}) :
                   \E tilt \in (IF exceeded THEN 20..34 ELSE {0}) :
                       level = Max(0, Min(100, base + blink + tilt))
                /\ (~fired /\ ~exceeded) => level < 50]_vars

\* the last tick fired the blink and exceeded the tilt with the largest
\* draws, and its drowsinessLevel was capped at 100
C31_Witness ==
    /\ isSessionActive
    /\ lastCall = Call("simulatorTick", "ok")
    /\ LET s == sessionData[Len(sessionData)]
       IN  /\ s.eyeBlinkRate = Num(20)
           /\ LargestAngle(s.headMovement) > TiltLimit
           /\ s.drowsinessLevel = Num(100)

C33_AlertsAtMostSamples == totalAlerts <= Len(sessionData)

\* a second session, started after a recorded session with an alert, holds
\* one sample and counted one alert for it
C33_Witness ==
    /\ isSessionActive
    /\ recentSessions # <<>>
    /\ recentSessions[1].totalAlerts >= 1
    /\ Len(sessionData) = 1
    /\ totalAlerts = 1
    /\ sessionData[1].alertTriggered = Bool(TRUE)

(***************************************************************************)
(* C34: after the page's load only stopSession changes the session         *)
(* history: a step that changes the in-memory history or the persisted     *)
(* slot is a stopSession, so startSession, the ingest of any message, the  *)
(* simulator's ticks and threshold changes leave both as they were.        *)
(***************************************************************************)
C34_OnlyStopChangesHistory ==
    [][(recentSessions' # recentSessions \/ localStorage' # localStorage)
         => \E w \in BOOLEAN : stopSession(w)]_vars

\* a session started after a recorded one has ingested a sample, and the
\* history and the slot still hold the recorded session at their front
C34_Witness ==
    /\ isSessionActive
    /\ lastCall.op \in {"simulatorTick", "ReceiveSensorData"}
    /\ sessionData # <<>>
    /\ recentSessions # <<>>
    /\ recentSessions[1].start >= 0
    /\ recentSessions[1].end <= sessionStartTime
    /\ localStorage = ArraySlot(recentSessions)

(***************************************************************************)
(* C35: the simulator reports an exceeded tilt only during a spike: on a   *)
(* tick that leaves all three base deflections at zero the observed angles *)
(* stay within the noise band of 2 degrees, and a sample of such a tick    *)
(* whose drowsinessLevel is below the threshold has alertTriggered false.  *)
(***************************************************************************)
C35_TiltOnlyDuringSpike ==
    [][(/\ isSessionActive
        /\ \E rnd \in DrowsyDraws : TimerFires(rnd)
        /\ simulatorState'.baseTilt = ZeroTilt)
         => LET s == sessionData'[Len(sessionData')]
            IN  /\ LargestAngle(s.headMovement) <= 2
                /\ s.drowsinessLevel.val < threshold
                     => s.alertTriggered = Bool(FALSE)]_vars

\* the last tick, outside a spike, observed the largest noise: 2 degrees,
\* and did not flag its sample
C35_Witness ==
    /\ isSessionActive
    /\ lastCall = Call("simulatorTick", "ok")
    /\ simulatorState.baseTilt = ZeroTilt
    /\ LET s == sessionData[Len(sessionData)]
       IN  /\ LargestAngle(s.headMovement) = 2
           /\ s.drowsinessLevel.val < threshold
           /\ s.alertTriggered = Bool(FALSE)

(***************************************************************************)
(* C36: with the ticks arriving every 2000 ms and a blink interval of      *)
(* 3000 ms, the blink event fires on exactly every second tick of a        *)
(* session, starting with the second: the tick that appends the session's  *)
(* n-th sample fires the blink exactly when n is even.  (No message is     *)
(* delivered in these runs, so the n-th sample is the n-th tick's.)        *)
(***************************************************************************)
C36_BlinkEverySecondTick ==
    [][(isSessionActive /\ \E rnd \in DrowsyDraws : TimerFires(rnd))
         => (simulatorState'.lastBlinkMs = now
               <=> Len(sessionData') % 2 = 0)]_vars

(***************************************************************************)
(* The summary specification: the transport and onESP32DataReceived        *)
(* deliver samples whose eyeBlinkRate or drowsinessLevel is NaN or an      *)
(* infinity next to finite ones; the validation accepts all of them.       *)
(***************************************************************************)
SummaryMessages ==
    { Complete(Num(10), Num(20), Bool(FALSE)),
      Complete(NaN, Num(80), Bool(TRUE)),
      Complete(Num(20), Infinity, Bool(FALSE)) }

InitSummary == InitWith({AbsentSlot}, {70})

NextSummary ==
    Step(SummaryMessages, {Draw(FALSE, 30, 0)}, {70}, {TRUE}, MaxHeld,
         MaxSteps, TickPeriodMs)

SpecSummary == InitSummary /\ [][NextSummary]_vars

(***************************************************************************)
(* C37: every summary a stopSession records has a sample count of at least *)
(* 1 and a finite avgBlinkRate and peakDrowsiness, whatever samples the    *)
(* validation accepted: the mean and the maximum of the samples when these *)
(* are finite, and 0 in place of a mean or maximum that is not.            *)
(***************************************************************************)
C37_SummaryIsFinite ==
    [][(/\ sessionStartTime # NullTime
        /\ sessionData # <<>>
        /\ \E w \in BOOLEAN : stopSession(w))
         => LET s == recentSessions'[1]
                n == Len(sessionData)
            IN  /\ s.points = n
                /\ s.points >= 1
                /\ s.avgBlinkRate.den > 0
                /\ s.avgBlinkRate
                     = IF \A i \in 1..n : IsFinite(sessionData[i].eyeBlinkRate)
                       THEN Ratio(BlinkTotal(sessionData, n), n)
                       ELSE Ratio(0, 1)
                /\ s.peakDrowsiness
                     = IF \A i \in 1..n : IsFinite(sessionData[i].drowsinessLevel)
                       THEN PeakOf(sessionData)
                       ELSE 0]_vars

\* a session with a NaN eyeBlinkRate and an infinite drowsinessLevel was
\* stopped and recorded with zeroes in their place
C37_Witness ==
    /\ lastCall.op = "stopSession"
    /\ \E i \in 1..Len(sessionData) : sessionData[i].eyeBlinkRate = NaN
    /\ \E j \in 1..Len(sessionData) : sessionData[j].drowsinessLevel = Infinity
    /\ recentSessions # <<>>
    /\ recentSessions[1].points = Len(sessionData)
    /\ recentSessions[1].avgBlinkRate = Ratio(0, 1)
    /\ recentSessions[1].peakDrowsiness = 0

(***************************************************************************)
(* The chart's specification: sessions are started (resetChart) and fed by *)
(* the transport, with samples that differ from one another, and by the    *)
(* simulator, until the window has shifted.                                *)
(***************************************************************************)
InitSeries == InitWith({AbsentSlot}, {70})

NextSeries ==
    \/ startSession
    \/ \E m \in WindowMessages(now, Len(sessionData)) :
          /\ Len(sessionData) < MaxPushes
          /\ ReceiveSensorData(m)
    \/ /\ Held < MaxHeld
       /\ TimerFires(Draw(FALSE, 30, 0))
    \/ /\ now < MaxSteps * TickPeriodMs
       /\ Advance(TickPeriodMs)

SpecSeries == InitSeries /\ [][NextSeries]_vars

(***************************************************************************)
(* C38: in every reachable state the chart's three parallel sequences      *)
(* (time labels, drowsiness series, blink-rate series) have the same       *)
(* length, and position i of each refers to the same pushed sample: the    *)
(* i-th of the samples pushed since the window's oldest point.             *)
(***************************************************************************)
C38_SeriesStayParallel ==
    /\ Len(chart.labels) = Len(chart.drowsiness)
    /\ Len(chart.labels) = Len(chart.blink)
    /\ Len(chart.labels) <= Len(pushed)
    /\ LET before == Len(pushed) - Len(chart.labels)
       IN  \A i \in 1..Len(chart.labels) :
              /\ chart.labels[i]
                   = ToLocaleTimeString(pushed[before + i].timestamp)
              /\ chart.drowsiness[i] = pushed[before + i].drowsinessLevel
              /\ chart.blink[i] = pushed[before + i].eyeBlinkRate

\* the window has shifted: the three series hold 20 points each, and their
\* first and last positions are those of the 20th last and the last sample
C38_Witness ==
    /\ Len(pushed) > 20
    /\ Len(chart.labels) = 20
    /\ Len(chart.drowsiness) = 20
    /\ Len(chart.blink) = 20
    /\ chart.blink[1] = pushed[Len(pushed) - 19].eyeBlinkRate
    /\ chart.blink[1] # pushed[1].eyeBlinkRate
    /\ chart.labels[20] = ToLocaleTimeString(pushed[Len(pushed)].timestamp)
    /\ chart.drowsiness[20] = pushed[Len(pushed)].drowsinessLevel
    /\ chart.blink[20] = pushed[Len(pushed)].eyeBlinkRate
=============================================================================
